---- MODULE Spec2Model ----
(***************************************************************************)
(* Kid's Story World backend (src/backend/server.js): the in-memory book,  *)
(* comment, feedback and views collections, their JSON backing files and   *)
(* the request handlers that query and mutate them.                        *)
(*                                                                         *)
(* Every handler runs synchronously to completion (fs.readFileSync /       *)
(* fs.writeFileSync, no await), so one action is one whole request.        *)
(*                                                                         *)
(* Representation choices                                                  *)
(*  - JavaScript strings are TLA+ strings; toLowerCase, includes, trim and *)
(*    split are computed character by character (toLowerCase and includes  *)
(*    are tabulated once for the texts the runs contain).                  *)
(*  - A request field that may be missing is [has, s] (string) or [has, n] *)
(*    (integer); has = FALSE is JavaScript's undefined.                    *)
(*  - A loosely typed JSON value (the feedback rating, the comment text)   *)
(*    is [t, n, s] with t the JavaScript type; numbers are held in tenths  *)
(*    so that fractional ratings exist; NaN is its own type tag.           *)
(*  - uuidv4() is a fresh-value generator: the counter nextId.             *)
(*  - Timestamps are clock ticks; createdAt holds the tick, and            *)
(*    new Date(createdAt) is that tick as a number.  The three sample      *)
(*    books' dates 2024-01-15, -10, -05 are the ticks 15, 10 and 5.        *)
(*  - The sample books' descriptions are cut to their opening words.       *)
(*  - A backing file is [exists, parses, data]; parses says that the text  *)
(*    is JSON, and data is the value JSON.parse returns for it.            *)
(***************************************************************************)
EXTENDS Integers, Sequences, FiniteSets, TLC

VARIABLES
    books,          \* let books            (server.js:94)
    viewsData,      \* let viewsData        (server.js:95)
    feedbackData,   \* let feedbackData     (server.js:96)
    commentsData,   \* let commentsData     (server.js:97)
    booksFile,      \* data/books.json
    viewsFile,      \* data/views.json
    feedbackFile,   \* data/feedback.json
    commentsFile,   \* data/comments.json
    nextId,         \* number of uuidv4() values handed out so far
    now,            \* the wall clock read by new Date()
    req,            \* the request handled last
    resp,           \* the response sent last
    nreq,           \* number of steps that changed the server or its clock
    phase,          \* "run", or "observed" once the request under study is handled
    writesOk,       \* history: no fs.writeFileSync has failed so far
    likeReqs,       \* history: book id -> number of like requests for it
    likes0,         \* history: book id -> likes when the book entered the catalog
    inflight,       \* client -> its like request: accepted, or answered
    pager           \* a client that reads a listing page after page

vars == <<books, viewsData, feedbackData, commentsData, booksFile, viewsFile,
          feedbackFile, commentsFile, nextId, now, req, resp, nreq, phase,
          writesOk, likeReqs, likes0, inflight, pager>>

-----------------------------------------------------------------------------
(* Bounds of the model *)

\* steps that change the server or its clock, per run
MaxReq == 2

\* clients that send requests at the same time
MaxClients == 3

-----------------------------------------------------------------------------
(* JavaScript values *)

Undef == [has |-> FALSE, s |-> ""]
Str(s) == [has |-> TRUE, s |-> s]
NoInt == [has |-> FALSE, n |-> 0]
Int_(n) == [has |-> TRUE, n |-> n]

\* !x for a string-or-undefined request field
Falsy(o) == ~o.has \/ o.s = ""

Max(a, b) == IF a >= b THEN a ELSE b
Min(a, b) == IF a <= b THEN a ELSE b

\* t occurs in s
occursIn(s, t) ==
    \E i \in 1..(Len(s) - Len(t) + 1) : SubSeq(s, i, i + Len(t) - 1) = t

\* the white space String.prototype.trim removes
IsSpace(c) == c \in {" ", "\t", "\n", "\r"}

RECURSIVE trimStart(_)
trimStart(s) ==
    IF Len(s) > 0 /\ IsSpace(SubSeq(s, 1, 1))
    THEN trimStart(SubSeq(s, 2, Len(s))) ELSE s

RECURSIVE trimEnd(_)
trimEnd(s) ==
    IF Len(s) > 0 /\ IsSpace(SubSeq(s, Len(s), Len(s)))
    THEN trimEnd(SubSeq(s, 1, Len(s) - 1)) ELSE s

\* String.prototype.trim
trim(s) == trimEnd(trimStart(s))

\* String.prototype.split(',')
RECURSIVE split(_, _)
split(s, acc) ==
    IF Len(s) = 0 THEN <<acc>>
    ELSE IF SubSeq(s, 1, 1) = ","
         THEN <<acc>> \o split(SubSeq(s, 2, Len(s)), "")
         ELSE split(SubSeq(s, 2, Len(s)), acc \o SubSeq(s, 1, 1))

\* tags.split(',').map(tag => tag.trim()).filter(tag => tag)
parseTags(tags) ==
    LET raw == split(tags, "")
        trimmed == [i \in 1..Len(raw) |-> trim(raw[i])]
    IN SelectSeq(trimmed, LAMBDA t : t # "")

-----------------------------------------------------------------------------
(* Array helpers *)

\* Array.prototype.slice(start, end), negative indices counted from the end
slice(s, start, end) ==
    LET len == Len(s)
        from == IF start < 0 THEN Max(len + start, 0) ELSE Min(start, len)
        to == IF end < 0 THEN Max(len + end, 0) ELSE Min(end, len)
    IN SubSeq(s, from + 1, to)

\* books.find(b => b.id === bookId): index of the first match, 0 if none
RECURSIVE findFrom(_, _, _)
findFrom(s, id, i) ==
    IF i > Len(s) THEN 0
    ELSE IF s[i].id = id THEN i ELSE findFrom(s, id, i + 1)

\* a lookup that falls back to the first element when nothing matches
findOrFirst(s, id) == IF findFrom(s, id, 1) = 0 THEN 1 ELSE findFrom(s, id, 1)

\* books.find(b => b.id === bookId): the index of the match, 0 for undefined
find(s, id) == findFrom(s, id, 1)

Ids(s) == {s[i].id : i \in 1..Len(s)}

-----------------------------------------------------------------------------
(* Numbers, as JavaScript converts them *)

IsDigit(c) == c \in {"0", "1", "2", "3", "4", "5", "6", "7", "8", "9"}

DigitVal(c) ==
    CASE c = "0" -> 0 [] c = "1" -> 1 [] c = "2" -> 2 [] c = "3" -> 3
      [] c = "4" -> 4 [] c = "5" -> 5 [] c = "6" -> 6 [] c = "7" -> 7
      [] c = "8" -> 8 [] c = "9" -> 9

DigitChar(d) ==
    CASE d = 0 -> "0" [] d = 1 -> "1" [] d = 2 -> "2" [] d = 3 -> "3"
      [] d = 4 -> "4" [] d = 5 -> "5" [] d = 6 -> "6" [] d = 7 -> "7"
      [] d = 8 -> "8" [] d = 9 -> "9"

\* number of leading decimal digits of s
RECURSIVE leadDigits(_)
leadDigits(s) ==
    IF Len(s) > 0 /\ IsDigit(SubSeq(s, 1, 1))
    THEN 1 + leadDigits(SubSeq(s, 2, Len(s))) ELSE 0

\* value of a string of decimal digits
RECURSIVE digitsValue(_, _)
digitsValue(s, acc) ==
    IF Len(s) = 0 THEN acc
    ELSE digitsValue(SubSeq(s, 2, Len(s)), acc * 10 + DigitVal(SubSeq(s, 1, 1)))

\* decimal digits of a natural number
RECURSIVE natToString(_)
natToString(k) ==
    IF k < 10 THEN DigitChar(k) ELSE natToString(k \div 10) \o DigitChar(k % 10)

\* JavaScript values: t is the type, n a number in tenths, s a string
JsUndefined == [t |-> "undefined", n |-> 0, s |-> ""]
JsNull == [t |-> "null", n |-> 0, s |-> ""]
JsNaN == [t |-> "nan", n |-> 0, s |-> ""]
JsInt(k) == [t |-> "number", n |-> 10 * k, s |-> ""]
JsTenths(k) == [t |-> "number", n |-> k, s |-> ""]
JsString(s) == [t |-> "string", n |-> 0, s |-> s]
JsBool(b) == [t |-> "boolean", n |-> IF b THEN 1 ELSE 0, s |-> ""]

\* !v
jsNot(v) ==
    CASE v.t = "undefined" -> TRUE
      [] v.t = "null" -> TRUE
      [] v.t = "nan" -> TRUE
      [] v.t = "number" -> v.n = 0
      [] v.t = "boolean" -> v.n = 0
      [] v.t = "string" -> v.s = ""

\* Number(string): white space trimmed, "" is 0, a decimal numeral with an
\* optional sign and at most one fractional digit is its value, anything
\* else is NaN
stringToNumber(str) ==
    LET s1 == trim(str)
        neg == Len(s1) > 0 /\ SubSeq(s1, 1, 1) = "-"
        signed == Len(s1) > 0 /\ SubSeq(s1, 1, 1) \in {"-", "+"}
        body == IF signed THEN SubSeq(s1, 2, Len(s1)) ELSE s1
        k == leadDigits(body)
        ip == digitsValue(SubSeq(body, 1, k), 0)
        rest == SubSeq(body, k + 1, Len(body))
        dot == Len(rest) > 0 /\ SubSeq(rest, 1, 1) = "."
        frac == IF dot THEN SubSeq(rest, 2, Len(rest)) ELSE ""
        f == leadDigits(frac)
        fp == IF f > 0 THEN DigitVal(SubSeq(frac, 1, 1)) ELSE 0
        mag == 10 * ip + fp
    IN IF s1 = "" THEN JsTenths(0)
       ELSE IF (rest = "" /\ k > 0) \/ (dot /\ f = Len(frac) /\ k + f > 0)
            THEN JsTenths(IF neg THEN 0 - mag ELSE mag)
            ELSE JsNaN

\* ToNumber(v), as the relational operators < and > apply it
toNumber(v) ==
    CASE v.t = "undefined" -> JsNaN
      [] v.t = "null" -> JsTenths(0)
      [] v.t = "nan" -> JsNaN
      [] v.t = "number" -> v
      [] v.t = "boolean" -> JsTenths(10 * v.n)
      [] v.t = "string" -> stringToNumber(v.s)

\* v < k and v > k for an integer k; a comparison with NaN is false
jsLess(v, k) == LET x == toNumber(v) IN x.t = "number" /\ x.n < 10 * k
jsGreater(v, k) == LET x == toNumber(v) IN x.t = "number" /\ x.n > 10 * k

\* String(v)
toString(v) ==
    CASE v.t = "undefined" -> "undefined"
      [] v.t = "null" -> "null"
      [] v.t = "nan" -> "NaN"
      [] v.t = "boolean" -> (IF v.n = 1 THEN "true" ELSE "false")
      [] v.t = "string" -> v.s
      [] v.t = "number" ->
            LET a == IF v.n < 0 THEN 0 - v.n ELSE v.n
            IN (IF v.n < 0 THEN "-" ELSE "") \o natToString(a \div 10)
               \o (IF a % 10 = 0 THEN "" ELSE "." \o DigitChar(a % 10))

\* parseInt(v): the integer that starts String(v), after leading white space
\* and an optional sign; NaN when no digit is there
parseInt(v) ==
    LET s1 == trimStart(toString(v))
        neg == Len(s1) > 0 /\ SubSeq(s1, 1, 1) = "-"
        signed == Len(s1) > 0 /\ SubSeq(s1, 1, 1) \in {"-", "+"}
        body == IF signed THEN SubSeq(s1, 2, Len(s1)) ELSE s1
        k == leadDigits(body)
        ip == digitsValue(SubSeq(body, 1, k), 0)
    IN IF k = 0 THEN JsNaN ELSE JsInt(IF neg THEN 0 - ip ELSE ip)

\* uuidv4(): the k-th value handed out
uuid(k) == "id-" \o natToString(k)

-----------------------------------------------------------------------------
(* Persistent store *)

NoFile == [exists |-> FALSE, parses |-> FALSE, data |-> <<>>]

\* a file whose text is the JSON of json
FileOf(json) == [exists |-> TRUE, parses |-> TRUE, data |-> json]

\* a file whose text is not JSON
Garbled == [exists |-> TRUE, parses |-> FALSE, data |-> <<>>]

\* JSON.parse(JSON.stringify(x)) for one JavaScript number: NaN becomes null
jsonNumber(v) == IF v.t = "nan" THEN JsNull ELSE v

\* JSON.parse(JSON.stringify(books)): every field of a book is a string, a
\* finite number or an array of strings, all of which JSON keeps
jsonBooks(bs) == bs

\* JSON.parse(JSON.stringify(commentsData)): string fields only
jsonComments(cs) == cs

\* JSON.parse(JSON.stringify(feedbackData))
jsonFeedback(fs) == [i \in 1..Len(fs) |-> [fs[i] EXCEPT !.rating = jsonNumber(@)]]

\* viewsData as loaded from an absent file: the empty array, no properties
EmptyViews ==
    [isArray |-> TRUE, totalViews |-> 0, uniqueDevices |-> <<>>, lastUpdated |-> 0]

\* JSON.parse(JSON.stringify(viewsData)): JSON.stringify writes an array as
\* its elements only, so the properties set on an array are not in the text
jsonViews(v) == IF v.isArray THEN EmptyViews ELSE v

\* writeJSONFile(filename, data): the file after the call; io = "ok" when
\* fs.writeFileSync succeeds, otherwise the error is logged and swallowed
writeJSONFile(file, json, io) ==
    IF io = "ok" THEN FileOf(json) ELSE file

\* readJSONFile(filename): [] when the file is absent or JSON.parse throws
readJSONFile(file, empty) ==
    IF file.exists /\ file.parses THEN file.data ELSE empty

IOs == {"ok", "error"}

-----------------------------------------------------------------------------
(* Startup *)

\* sampleBooks of seedInitialData, with ids uuid(k+1), uuid(k+2), uuid(k+3)
sampleBooks(k) == <<
    [id |-> uuid(k + 1),
     title |-> "The Adventures of Sunny Bunny",
     author |-> "Emma Johnson",
     description |-> "Join Sunny Bunny on his magical adventure",
     genre |-> "adventure",
     ageGroup |-> "3-5",
     tags |-> <<"bunny", "forest", "friendship", "magic">>,
     coverUrl |-> "/api/static/sample-cover1.jpg",
     pdfUrl |-> "/api/static/sample-book1.pdf",
     views |-> 1245,
     likes |-> 89,
     createdAt |-> 15,
     updatedAt |-> 15],
    [id |-> uuid(k + 2),
     title |-> "Counting with Colorful Cats",
     author |-> "Dr. Lisa Wang",
     description |-> "Learn numbers and colors with this interactive story",
     genre |-> "educational",
     ageGroup |-> "2-4",
     tags |-> <<"counting", "colors", "cats", "learning">>,
     coverUrl |-> "/api/static/sample-cover2.jpg",
     pdfUrl |-> "/api/static/sample-book2.pdf",
     views |-> 892,
     likes |-> 67,
     createdAt |-> 10,
     updatedAt |-> 10],
    [id |-> uuid(k + 3),
     title |-> "Princess Luna's Starry Night",
     author |-> "Michael Chen",
     description |-> "A beautiful bedtime story about Princess Luna",
     genre |-> "bedtime",
     ageGroup |-> "4-6",
     tags |-> <<"princess", "stars", "bedtime", "magic">>,
     coverUrl |-> "/api/static/sample-cover3.jpg",
     pdfUrl |-> "/api/static/sample-book3.pdf",
     views |-> 1567,
     likes |-> 124,
     createdAt |-> 5,
     updatedAt |-> 5] >>

\* the clients whose requests overlap, and a client that has sent nothing
Clients == 1..MaxClients
Idle == [state |-> "idle", bookId |-> "", seen |-> 0, during |-> {}]

\* a client that has not asked for a listing
NotPaging ==
    [state |-> "idle", search |-> "", genre |-> "", sort |-> Undef, limit |-> 1,
     next |-> 1, got |-> <<>>, matching |-> {}]

NoReq == [op |-> "none"]
NoResp == [op |-> "none", status |-> 0, success |-> TRUE]

\* A first start in an empty data directory: the four collections load as
\* [], then seedInitialData installs the sample books and writes books.json
Init ==
    \E io \in IOs :
        /\ books = sampleBooks(0)
        /\ viewsData = readJSONFile(NoFile, EmptyViews)
        /\ feedbackData = readJSONFile(NoFile, <<>>)
        /\ commentsData = readJSONFile(NoFile, <<>>)
        /\ booksFile = writeJSONFile(NoFile, jsonBooks(sampleBooks(0)), io)
        /\ viewsFile = NoFile
        /\ feedbackFile = NoFile
        /\ commentsFile = NoFile
        /\ nextId = 3
        /\ now = 20
        /\ req = NoReq
        /\ resp = NoResp
        /\ nreq = 0
        /\ phase = "run"
        /\ writesOk = (io = "ok")
        /\ likeReqs = [id \in Ids(sampleBooks(0)) |-> 0]
        /\ likes0 = [id \in Ids(sampleBooks(0)) |->
                        sampleBooks(0)[find(sampleBooks(0), id)].likes]
        /\ inflight = [c \in Clients |-> Idle]
        /\ pager = NotPaging

\* seeding at every start
needsSeedAlways(bs) == TRUE

\* books.length === 0
needsSeed(bs) == Len(bs) = 0

\* A later start of the process: the four collections are read from their
\* files, and seedInitialData installs the sample books if books is empty
Restart(io) ==
    \E loaded \in {readJSONFile(booksFile, <<>>)} :
       /\ IF needsSeed(loaded)
          THEN /\ books' = sampleBooks(nextId)
               /\ booksFile' = writeJSONFile(booksFile, jsonBooks(books'), io)
               /\ nextId' = nextId + 3
               /\ writesOk' = (writesOk /\ io = "ok")
          ELSE /\ books' = loaded
               /\ UNCHANGED <<booksFile, nextId, writesOk>>
       /\ viewsData' = readJSONFile(viewsFile, EmptyViews)
       /\ feedbackData' = readJSONFile(feedbackFile, <<>>)
       /\ commentsData' = readJSONFile(commentsFile, <<>>)
       /\ nreq' = nreq + 1
       /\ req' = [op |-> "start", at |-> nreq', io |-> io]
       /\ resp' = [op |-> "start", status |-> 0, success |-> TRUE]
       /\ likeReqs' = [id \in Ids(books') |-> 0]
       /\ likes0' = [id \in Ids(books') |-> books'[find(books', id)].likes]
       /\ UNCHANGED <<viewsFile, feedbackFile, commentsFile, now>>

\* data/books.json is removed, emptied to [] or overwritten with text that
\* is not JSON, by something other than the server
Damage(kind) ==
    /\ booksFile' = CASE kind = "removed" -> NoFile
                      [] kind = "emptied" -> FileOf(<<>>)
                      [] kind = "garbled" -> Garbled
    /\ booksFile' # booksFile
    /\ nreq' = nreq + 1
    /\ UNCHANGED <<books, viewsData, feedbackData, commentsData, viewsFile,
                   feedbackFile, commentsFile, nextId, now, req, resp, writesOk,
                   likeReqs, likes0>>

-----------------------------------------------------------------------------
(* POST /api/books *)

\* the error-handling middleware, for an error raised by the upload middleware
errorMiddleware(err) ==
    CASE err = "LIMIT_FILE_SIZE" ->
            [status |-> 400, error |-> "File too large. Maximum size is 10MB."]
      [] err = "LIMIT_FILE_COUNT" ->
            [status |-> 400, error |-> "Too many files. Maximum is 2."]
      [] err = "Invalid file type" ->
            [status |-> 400,
             error |-> "Invalid file type. Only images and PDFs are allowed."]
      [] OTHER -> [status |-> 500, error |-> "Internal server error"]

\* number of files the upload middleware stores for a form; each stored file
\* is named uuidv4() + extension, the cover first
nFiles(form) == (IF form.cover.has THEN 1 ELSE 0) + (IF form.pdf.has THEN 1 ELSE 0)

coverFilename(form, k) == uuid(k + 1) \o form.cover.s
pdfFilename(form, k) == uuid(k + nFiles(form)) \o form.pdf.s

\* the field validation of the upload handler
missingField(form) ==
    \/ Falsy(form.title) \/ Falsy(form.author) \/ Falsy(form.description)
    \/ Falsy(form.genre) \/ Falsy(form.ageGroup)

\* the file validation of the upload handler
missingFile(form) == ~form.cover.has \/ ~form.pdf.has

\* a book object that takes the identifier generated last instead of a new one
newBookStaleId(form, k, t) ==
    [id |-> uuid(k),
     title |-> form.title.s,
     author |-> form.author.s,
     description |-> form.description.s,
     genre |-> form.genre.s,
     ageGroup |-> form.ageGroup.s,
     tags |-> parseTags(IF form.tags.has THEN form.tags.s ELSE ""),
     coverUrl |-> "/api/static/covers/" \o coverFilename(form, k),
     pdfUrl |-> "/api/static/pdfs/" \o pdfFilename(form, k),
     views |-> 0,
     likes |-> 0,
     createdAt |-> t,
     updatedAt |-> t]

\* the book object the upload handler creates
newBook(form, k, t) ==
    [id |-> uuid(k + nFiles(form) + 1),
     title |-> form.title.s,
     author |-> form.author.s,
     description |-> form.description.s,
     genre |-> form.genre.s,
     ageGroup |-> form.ageGroup.s,
     tags |-> parseTags(IF form.tags.has THEN form.tags.s ELSE ""),
     coverUrl |-> "/api/static/covers/" \o coverFilename(form, k),
     pdfUrl |-> "/api/static/pdfs/" \o pdfFilename(form, k),
     views |-> 0,
     likes |-> 0,
     createdAt |-> t,
     updatedAt |-> t]

\* an insertion behind the last book
unshiftAtEnd(bs, book) == Append(bs, book)

\* books.unshift(newBook)
unshift(bs, book) == <<book>> \o bs

\* reject is the error of the upload middleware, "none" when it accepts the
\* request; a rejected request stores no file and never reaches the handler
Upload(form, reject, io) ==
    /\ req' = [op |-> "upload", form |-> form, reject |-> reject]
    /\ nreq' = IF reject = "none" /\ (nFiles(form) > 0 \/ ~missingField(form))
               THEN nreq + 1 ELSE nreq
    /\ IF reject # "none"
       THEN /\ resp' = [op |-> "upload", status |-> errorMiddleware(reject).status,
                        success |-> FALSE, error |-> errorMiddleware(reject).error]
            /\ UNCHANGED <<books, booksFile, nextId, writesOk, likeReqs, likes0>>
       ELSE IF missingField(form)
       THEN /\ resp' = [op |-> "upload", status |-> 400, success |-> FALSE,
                        error |-> "All required fields must be filled"]
            /\ nextId' = nextId + nFiles(form)
            /\ UNCHANGED <<books, booksFile, writesOk, likeReqs, likes0>>
       ELSE IF missingFile(form)
       THEN /\ resp' = [op |-> "upload", status |-> 400, success |-> FALSE,
                        error |-> "Both cover image and PDF file are required"]
            /\ nextId' = nextId + nFiles(form)
            /\ UNCHANGED <<books, booksFile, writesOk, likeReqs, likes0>>
       ELSE LET book == newBook(form, nextId, now)
            IN /\ nextId' = nextId + nFiles(form) + 1
               /\ books' = unshift(books, book)
               /\ booksFile' = writeJSONFile(booksFile, jsonBooks(books'), io)
               /\ writesOk' = (writesOk /\ io = "ok")
               /\ likeReqs' = (book.id :> 0) @@ likeReqs
               /\ likes0' = (book.id :> book.likes) @@ likes0
               /\ resp' = [op |-> "upload", status |-> 201, success |-> TRUE,
                           data |-> book]
    /\ UNCHANGED <<viewsData, feedbackData, commentsData, viewsFile, feedbackFile,
                   commentsFile, now>>

-----------------------------------------------------------------------------
(* Texts *)

ValidForm1 ==
    [title |-> Str("Cat Nap"), author |-> Str("Ann Lee"),
     description |-> Str("A sleepy kitten"), genre |-> Str("animal"),
     ageGroup |-> Str("2-4"), tags |-> Str(" cat, ,Nap,"),
     cover |-> Str(".png"), pdf |-> Str(".pdf")]

ValidForm2 ==
    [title |-> Str("Moon Song"), author |-> Str("Bo"),
     description |-> Str("A lullaby"), genre |-> Str("bedtime"),
     ageGroup |-> Str("4-6"), tags |-> Undef,
     cover |-> Str(".jpg"), pdf |-> Str(".pdf")]

ValidForms == {ValidForm1, ValidForm2}

Searches == {"", "CAT", "educational"}

\* String.prototype.toLowerCase, one character
LowerChar(c) ==
    CASE c = "A" -> "a" [] c = "B" -> "b" [] c = "C" -> "c" [] c = "D" -> "d"
      [] c = "E" -> "e" [] c = "F" -> "f" [] c = "G" -> "g" [] c = "H" -> "h"
      [] c = "I" -> "i" [] c = "J" -> "j" [] c = "K" -> "k" [] c = "L" -> "l"
      [] c = "M" -> "m" [] c = "N" -> "n" [] c = "O" -> "o" [] c = "P" -> "p"
      [] c = "Q" -> "q" [] c = "R" -> "r" [] c = "S" -> "s" [] c = "T" -> "t"
      [] c = "U" -> "u" [] c = "V" -> "v" [] c = "W" -> "w" [] c = "X" -> "x"
      [] c = "Y" -> "y" [] c = "Z" -> "z" [] OTHER -> c

RECURSIVE lowerFrom(_, _)
lowerFrom(s, i) ==
    IF i > Len(s) THEN ""
    ELSE LowerChar(SubSeq(s, i, i)) \o lowerFrom(s, i + 1)

\* the texts of the sample books, of the upload forms and of the searches
BookTexts(b) ==
    {b.title, b.author, b.description} \cup {b.tags[i] : i \in 1..Len(b.tags)}

KnownTexts ==
    UNION {BookTexts(sampleBooks(0)[i]) : i \in 1..Len(sampleBooks(0))}
    \cup UNION {BookTexts(newBook(f, 0, 0)) : f \in ValidForms}
    \cup Searches

\* lowerFrom, computed once for each known text
LowerTable == [s \in KnownTexts |-> lowerFrom(s, 1)]

\* String.prototype.toLowerCase
toLowerCase(s) == IF s \in KnownTexts THEN LowerTable[s] ELSE lowerFrom(s, 1)

\* the lower-cased known texts, and occursIn computed once for each pair
LowerTexts == {LowerTable[s] : s \in KnownTexts}
IncludesTable == [s \in LowerTexts |-> {t \in LowerTexts : occursIn(s, t)}]

\* String.prototype.includes
includes(s, t) ==
    IF s \in LowerTexts /\ t \in LowerTexts
    THEN t \in IncludesTable[s]
    ELSE occursIn(s, t)

-----------------------------------------------------------------------------
(* GET /api/books *)

DefaultPage == 1
DefaultLimit == 12

\* a search that also looks at the genre
matchesSearchOrGenre(book, search) ==
    LET searchLower == toLowerCase(search)
    IN \/ includes(toLowerCase(book.title), searchLower)
       \/ includes(toLowerCase(book.author), searchLower)
       \/ includes(toLowerCase(book.description), searchLower)
       \/ includes(toLowerCase(book.genre), searchLower)
       \/ \E i \in 1..Len(book.tags) :
             includes(toLowerCase(book.tags[i]), searchLower)

\* the search predicate of the listing
matchesSearch(book, search) ==
    LET searchLower == toLowerCase(search)
    IN \/ includes(toLowerCase(book.title), searchLower)
       \/ includes(toLowerCase(book.author), searchLower)
       \/ includes(toLowerCase(book.description), searchLower)
       \/ \E i \in 1..Len(book.tags) :
             includes(toLowerCase(book.tags[i]), searchLower)

\* the search filter and the genre filter of the listing
filterBooks(bs, search, genre) ==
    LET bySearch == IF search # ""
                    THEN SelectSeq(bs, LAMBDA b : matchesSearch(b, search))
                    ELSE bs
    IN IF genre # "" /\ genre # "all"
       THEN SelectSeq(bySearch, LAMBDA b : b.genre = genre)
       ELSE bySearch

\* a comparator whose popular order puts the least viewed book first
compareLeastViewed(sort, a, b) ==
    CASE sort = "popular" -> a.views - b.views
      [] sort = "likes" -> b.likes - a.likes
      [] sort = "oldest" -> a.createdAt - b.createdAt
      [] OTHER -> b.createdAt - a.createdAt

\* the comparator of each sort key
compare(sort, a, b) ==
    CASE sort = "popular" -> b.views - a.views
      [] sort = "likes" -> b.likes - a.likes
      [] sort = "oldest" -> a.createdAt - b.createdAt
      [] OTHER -> b.createdAt - a.createdAt

\* an unstable sort: x goes before the elements it ties with
RECURSIVE insertUnstable(_, _, _)
insertUnstable(s, x, sort) ==
    IF Len(s) = 0 THEN <<x>>
    ELSE IF compare(sort, Head(s), x) >= 0 THEN <<x>> \o s
         ELSE <<Head(s)>> \o insertUnstable(Tail(s), x, sort)

\* Array.prototype.sort is stable: x goes before the first element that the
\* comparator orders after it
RECURSIVE insertSorted(_, _, _)
insertSorted(s, x, sort) ==
    IF Len(s) = 0 THEN <<x>>
    ELSE IF compare(sort, Head(s), x) > 0 THEN <<x>> \o s
         ELSE <<Head(s)>> \o insertSorted(Tail(s), x, sort)

RECURSIVE sortFrom(_, _, _)
sortFrom(s, acc, sort) ==
    IF Len(s) = 0 THEN acc
    ELSE sortFrom(Tail(s), insertSorted(acc, Head(s), sort), sort)

sortBooks(bs, sort) == sortFrom(bs, <<>>, sort)

\* a view that stores 1 instead of adding 1
viewedReset(book) == [book EXCEPT !.views = 1]

\* book.views = (book.views || 0) + 1
viewed(book) == [book EXCEPT !.views = @ + 1]

\* a like that also stamps the book as updated
likedAndTouched(book) == [book EXCEPT !.likes = @ + 1, !.updatedAt = @ + 1]

\* a like that counts only the first like of a book
likedOnce(book) == [book EXCEPT !.likes = IF @ = 0 THEN 1 ELSE @]

\* book.likes = (book.likes || 0) + 1
liked(book) == [book EXCEPT !.likes = @ + 1]

\* Math.floor in place of Math.ceil
floorDiv(n, limit) == n \div limit

\* Math.ceil(n / limit), for limit >= 1
ceilDiv(n, limit) == (n + limit - 1) \div limit

\* a comparison that also holds when the page ends with the last book
hasMoreInclusive(endIndex, n) == endIndex <= n

\* endIndex < filteredBooks.length
hasMore(endIndex, n) == endIndex < n

\* a view for every book of the catalog, served or not
incrementViewsAll(bs, served) == [i \in 1..Len(bs) |-> viewed(bs[i])]

\* paginatedBooks.forEach(book => book.views = (book.views || 0) + 1): the
\* page holds the objects of the books array, so the catalog sees the views
incrementViews(bs, served) ==
    [i \in 1..Len(bs) |-> IF bs[i].id \in served THEN viewed(bs[i]) ELSE bs[i]]

\* The handler's locals are bound once each, in the order the code computes
\* them.
ListBooks(search, genre, sortQ, pageQ, limitQ) ==
    LET sort == IF sortQ.has THEN sortQ.s ELSE "newest"
        page == IF pageQ.has THEN pageQ.n ELSE DefaultPage
        limit == IF limitQ.has THEN limitQ.n ELSE DefaultLimit
        startIndex == (page - 1) * limit
        endIndex == page * limit
    IN \E filteredBooks \in {sortBooks(filterBooks(books, search, genre), sort)} :
       \E paginatedBooks \in {slice(filteredBooks, startIndex, endIndex)} :
       \E served \in {Ids(paginatedBooks)} :
          /\ books' = incrementViews(books, served)
          /\ nreq' = IF served = {} THEN nreq ELSE nreq + 1
          /\ req' = [op |-> "list", search |-> search, genre |-> genre,
                     sort |-> sortQ, page |-> page, limit |-> limit]
          /\ resp' = [op |-> "list", status |-> 200, success |-> TRUE,
                      data |-> [i \in 1..Len(paginatedBooks) |->
                                   viewed(paginatedBooks[i])],
                      pagination |->
                          [currentPage |-> page,
                           totalPages |-> ceilDiv(Len(filteredBooks), limit),
                           totalBooks |-> Len(filteredBooks),
                           hasMore |-> hasMore(endIndex, Len(filteredBooks))],
                      filteredBooks |-> filteredBooks]
          /\ UNCHANGED <<viewsData, feedbackData, commentsData, booksFile,
                         viewsFile, feedbackFile, commentsFile, nextId, now,
                         writesOk, likeReqs, likes0>>

\* A client fixes search, genre, sort and limit to read the listing from
\* page 1 on; matching is the set of books the filters select
StartPaging(search, genre, sort, limit) ==
    /\ pager.state = "idle"
    /\ pager' = [state |-> "paging", search |-> search, genre |-> genre,
                 sort |-> sort, limit |-> limit, next |-> 1, got |-> <<>>,
                 matching |-> Ids(filterBooks(books, search, genre))]
    /\ UNCHANGED <<books, viewsData, feedbackData, commentsData, booksFile,
                   viewsFile, feedbackFile, commentsFile, nextId, now, req, resp,
                   nreq, writesOk, likeReqs, likes0>>

\* The client requests its next page and keeps the ids of the books of the
\* answer; it stops after the page that pagination.totalPages says is the last
NextPage ==
    /\ pager.state = "paging"
    /\ ListBooks(pager.search, pager.genre, pager.sort, Int_(pager.next),
                 Int_(pager.limit))
    /\ pager' = [pager EXCEPT
                   !.got = @ \o [j \in 1..Len(resp'.data) |-> resp'.data[j].id],
                   !.next = @ + 1,
                   !.state = IF pager.next >= resp'.pagination.totalPages
                             THEN "done" ELSE "paging"]

-----------------------------------------------------------------------------
(* GET /api/books/:id *)

\* a handler that writes the books before it counts the view
GetBookWriteFirst(bookId, io) ==
    LET i == find(books, bookId)
    IN /\ req' = [op |-> "get", bookId |-> bookId]
       /\ IF i = 0
          THEN /\ resp' = [op |-> "get", status |-> 404, success |-> FALSE,
                           error |-> "Book not found"]
               /\ UNCHANGED <<books, booksFile, nreq, writesOk>>
          ELSE /\ nreq' = nreq + 1
               /\ books' = [books EXCEPT ![i] = viewed(@)]
               /\ booksFile' = writeJSONFile(booksFile, jsonBooks(books), io)
               /\ writesOk' = (writesOk /\ io = "ok")
               /\ resp' = [op |-> "get", status |-> 200, success |-> TRUE,
                           data |-> books'[i],
                           comments |-> SelectSeq(commentsData,
                                                  LAMBDA c : c.bookId = bookId)]
       /\ UNCHANGED <<viewsData, feedbackData, commentsData, viewsFile,
                      feedbackFile, commentsFile, nextId, now, likeReqs, likes0>>

GetBook(bookId, io) ==
    LET i == find(books, bookId)
    IN /\ req' = [op |-> "get", bookId |-> bookId]
       /\ IF i = 0
          THEN /\ resp' = [op |-> "get", status |-> 404, success |-> FALSE,
                           error |-> "Book not found"]
               /\ UNCHANGED <<books, booksFile, nreq, writesOk>>
          ELSE /\ nreq' = nreq + 1
               /\ books' = [books EXCEPT ![i] = viewed(@)]
               /\ booksFile' = writeJSONFile(booksFile, jsonBooks(books'), io)
               /\ writesOk' = (writesOk /\ io = "ok")
               /\ resp' = [op |-> "get", status |-> 200, success |-> TRUE,
                           data |-> books'[i],
                           comments |-> SelectSeq(commentsData,
                                                  LAMBDA c : c.bookId = bookId)]
       /\ UNCHANGED <<viewsData, feedbackData, commentsData, viewsFile,
                      feedbackFile, commentsFile, nextId, now, likeReqs, likes0>>

-----------------------------------------------------------------------------
(* POST /api/books/:id/like *)

Like(bookId, io) ==
    LET i == find(books, bookId)
    IN /\ req' = [op |-> "like", bookId |-> bookId]
       /\ IF i = 0
          THEN /\ resp' = [op |-> "like", status |-> 404, success |-> FALSE,
                           error |-> "Book not found"]
               /\ UNCHANGED <<books, booksFile, nreq, writesOk, likeReqs>>
          ELSE /\ nreq' = nreq + 1
               /\ books' = [books EXCEPT ![i] = liked(@)]
               /\ booksFile' = writeJSONFile(booksFile, jsonBooks(books'), io)
               /\ writesOk' = (writesOk /\ io = "ok")
               /\ likeReqs' = [likeReqs EXCEPT ![bookId] = @ + 1]
               /\ resp' = [op |-> "like", status |-> 200, success |-> TRUE,
                           likes |-> books'[i].likes]
       /\ UNCHANGED <<viewsData, feedbackData, commentsData, viewsFile,
                      feedbackFile, commentsFile, nextId, now, likes0>>

\* The server accepts the like request of client c while the requests of
\* other clients wait for their handlers.  seen is the like count at that
\* moment; during is the set of clients whose requests are waiting.
Accept(c, bookId) ==
    /\ inflight[c].state = "idle"
    /\ inflight' = [inflight EXCEPT ![c] =
                       [state |-> "accepted",
                        bookId |-> bookId,
                        seen |-> books[find(books, bookId)].likes,
                        during |-> {d \in Clients : inflight[d].state = "accepted"}]]
    /\ UNCHANGED <<books, viewsData, feedbackData, commentsData, booksFile,
                   viewsFile, feedbackFile, commentsFile, nextId, now, req, resp,
                   nreq, writesOk, likeReqs, likes0>>

\* a handler that stores the count it saw when the request was accepted
HandleLikeStale(c, io) ==
    LET bookId == inflight[c].bookId
        i == find(books, bookId)
    IN /\ inflight[c].state = "accepted"
       /\ inflight' = [inflight EXCEPT ![c].state = "answered"]
       /\ req' = [op |-> "like", bookId |-> bookId]
       /\ nreq' = nreq + 1
       /\ books' = [books EXCEPT ![i].likes = inflight[c].seen + 1]
       /\ booksFile' = writeJSONFile(booksFile, jsonBooks(books'), io)
       /\ writesOk' = (writesOk /\ io = "ok")
       /\ likeReqs' = [likeReqs EXCEPT ![bookId] = @ + 1]
       /\ resp' = [op |-> "like", status |-> 200, success |-> TRUE,
                   likes |-> books'[i].likes]
       /\ UNCHANGED <<viewsData, feedbackData, commentsData, viewsFile,
                      feedbackFile, commentsFile, nextId, now, likes0>>

\* The event loop runs the like handler for the accepted request of client
\* c: the handler is synchronous, so it runs from the lookup to the response
\* without another handler in between
HandleLike(c, io) ==
    /\ inflight[c].state = "accepted"
    /\ Like(inflight[c].bookId, io)
    /\ inflight' = [inflight EXCEPT ![c].state = "answered"]

-----------------------------------------------------------------------------
(* POST /api/books/:id/comment and GET /api/books/:id/comments *)

\* the validation without the trim
emptyCommentNoTrim(comment) == jsNot(comment)

\* !comment || comment.trim().length === 0, for a comment that has a trim
emptyComment(comment) == jsNot(comment) \/ Len(trim(comment.s)) = 0

\* comment.trim() throws: the comment is truthy and not a string
trimThrows(comment) == ~jsNot(comment) /\ comment.t # "string"

newComment(bookId, comment, author, k, t) ==
    [id |-> uuid(k + 1),
     bookId |-> bookId,
     author |-> IF author.has THEN author.s ELSE "Anonymous",
     comment |-> trim(comment.s),
     createdAt |-> t]

\* a handler that looks the book up and refuses a comment on an unknown id
AddCommentToBook(bookId, comment, author, io) ==
    /\ req' = [op |-> "comment", bookId |-> bookId, comment |-> comment,
               author |-> author]
    /\ IF find(books, bookId) = 0
       THEN /\ resp' = [op |-> "comment", status |-> 404, success |-> FALSE,
                        error |-> "Book not found"]
            /\ UNCHANGED <<commentsData, commentsFile, nextId, nreq, writesOk>>
       ELSE IF trimThrows(comment)
       THEN /\ resp' = [op |-> "comment", status |-> 500, success |-> FALSE,
                        error |-> "Failed to add comment"]
            /\ UNCHANGED <<commentsData, commentsFile, nextId, nreq, writesOk>>
       ELSE IF emptyComment(comment)
       THEN /\ resp' = [op |-> "comment", status |-> 400, success |-> FALSE,
                        error |-> "Comment cannot be empty"]
            /\ UNCHANGED <<commentsData, commentsFile, nextId, nreq, writesOk>>
       ELSE LET c == newComment(bookId, comment, author, nextId, now)
            IN /\ nreq' = nreq + 1
               /\ nextId' = nextId + 1
               /\ commentsData' = Append(commentsData, c)
               /\ commentsFile' = writeJSONFile(commentsFile,
                                                jsonComments(commentsData'), io)
               /\ writesOk' = (writesOk /\ io = "ok")
               /\ resp' = [op |-> "comment", status |-> 201, success |-> TRUE,
                           data |-> c]
    /\ UNCHANGED <<books, viewsData, feedbackData, booksFile, viewsFile,
                   feedbackFile, now, likeReqs, likes0>>

AddComment(bookId, comment, author, io) ==
    /\ req' = [op |-> "comment", bookId |-> bookId, comment |-> comment,
               author |-> author]
    /\ IF trimThrows(comment)
       THEN /\ resp' = [op |-> "comment", status |-> 500, success |-> FALSE,
                        error |-> "Failed to add comment"]
            /\ UNCHANGED <<commentsData, commentsFile, nextId, nreq, writesOk>>
       ELSE IF emptyComment(comment)
       THEN /\ resp' = [op |-> "comment", status |-> 400, success |-> FALSE,
                        error |-> "Comment cannot be empty"]
            /\ UNCHANGED <<commentsData, commentsFile, nextId, nreq, writesOk>>
       ELSE LET c == newComment(bookId, comment, author, nextId, now)
            IN /\ nreq' = nreq + 1
               /\ nextId' = nextId + 1
               /\ commentsData' = Append(commentsData, c)
               /\ commentsFile' = writeJSONFile(commentsFile,
                                                jsonComments(commentsData'), io)
               /\ writesOk' = (writesOk /\ io = "ok")
               /\ resp' = [op |-> "comment", status |-> 201, success |-> TRUE,
                           data |-> c]
    /\ UNCHANGED <<books, viewsData, feedbackData, booksFile, viewsFile,
                   feedbackFile, now, likeReqs, likes0>>

\* the comments of a book, left in the order of the collection
bookCommentsUnsorted(cs, bookId) == SelectSeq(cs, LAMBDA c : c.bookId = bookId)

\* commentsData.filter(comment => comment.bookId === bookId)
\*             .sort((a, b) => new Date(b.createdAt) - new Date(a.createdAt))
bookComments(cs, bookId) ==
    sortBooks(SelectSeq(cs, LAMBDA c : c.bookId = bookId), "newest")

GetComments(bookId) ==
    /\ req' = [op |-> "comments", bookId |-> bookId]
    /\ resp' = [op |-> "comments", status |-> 200, success |-> TRUE,
                data |-> bookComments(commentsData, bookId)]
    /\ UNCHANGED <<books, viewsData, feedbackData, commentsData, booksFile,
                   viewsFile, feedbackFile, commentsFile, nextId, now, nreq,
                   writesOk, likeReqs, likes0>>

-----------------------------------------------------------------------------
(* POST /api/feedback *)

\* the validation without its upper bound
invalidFeedbackNoUpper(bookId, rating) ==
    Falsy(bookId) \/ jsNot(rating) \/ jsLess(rating, 1)

\* !bookId || !rating || rating < 1 || rating > 5
invalidFeedback(bookId, rating) ==
    Falsy(bookId) \/ jsNot(rating) \/ jsLess(rating, 1) \/ jsGreater(rating, 5)

newFeedback(bookId, rating, comment, deviceId, k, t) ==
    [id |-> uuid(k + 1),
     bookId |-> bookId.s,
     rating |-> parseInt(rating),
     comment |-> IF Falsy(comment) THEN "" ELSE comment.s,
     deviceId |-> IF Falsy(deviceId) THEN "unknown" ELSE deviceId.s,
     createdAt |-> t]

Feedback(bookId, rating, comment, deviceId, io) ==
    /\ req' = [op |-> "feedback", bookId |-> bookId, rating |-> rating,
               comment |-> comment, deviceId |-> deviceId]
    /\ IF invalidFeedback(bookId, rating)
       THEN /\ resp' = [op |-> "feedback", status |-> 400, success |-> FALSE,
                        error |-> "Valid book ID and rating (1-5) are required"]
            /\ UNCHANGED <<feedbackData, feedbackFile, nextId, nreq, writesOk>>
       ELSE LET f == newFeedback(bookId, rating, comment, deviceId, nextId, now)
            IN /\ nreq' = nreq + 1
               /\ nextId' = nextId + 1
               /\ feedbackData' = Append(feedbackData, f)
               /\ feedbackFile' = writeJSONFile(feedbackFile,
                                                jsonFeedback(feedbackData'), io)
               /\ writesOk' = (writesOk /\ io = "ok")
               /\ resp' = [op |-> "feedback", status |-> 201, success |-> TRUE,
                           data |-> f]
    /\ UNCHANGED <<books, viewsData, commentsData, booksFile, viewsFile,
                   commentsFile, now, likeReqs, likes0>>

-----------------------------------------------------------------------------
(* GET /api/stats *)

\* reduce((sum, x) => sum + x, 0) over a sequence of numbers
RECURSIVE reduceSum(_)
reduceSum(s) == IF Len(s) = 0 THEN 0 ELSE Head(s) + reduceSum(Tail(s))

\* Number.prototype.toFixed(1) of a number given in tenths
toFixed1(tenths) == natToString(tenths \div 10) \o "." \o natToString(tenths % 10)

\* the mean of the stored ratings to one decimal, as toFixed writes it; the
\* number 0 when there is no feedback, "NaN" when a stored rating is NaN
averageRating(fs) ==
    IF Len(fs) = 0 THEN JsInt(0)
    ELSE IF \E i \in 1..Len(fs) : fs[i].rating.t = "nan" THEN JsString("NaN")
    ELSE JsString(toFixed1((2 * reduceSum([i \in 1..Len(fs) |-> fs[i].rating.n])
                              + Len(fs)) \div (2 * Len(fs))))

\* the five books at the end of the array
recentBooksLast(bs) ==
    LET last == slice(bs, 0 - 5, Len(bs))
    IN [i \in 1..Len(last) |->
           [id |-> last[i].id, title |-> last[i].title, views |-> last[i].views,
            likes |-> last[i].likes]]

\* books.slice(0, 5).map(book => ({id, title, views, likes}))
recentBooks(bs) ==
    LET first == slice(bs, 0, 5)
    IN [i \in 1..Len(first) |->
           [id |-> first[i].id, title |-> first[i].title, views |-> first[i].views,
            likes |-> first[i].likes]]

\* The handler reads the books and the feedback and changes nothing
GetStats ==
    /\ req' = [op |-> "stats"]
    /\ resp' = [op |-> "stats", status |-> 200, success |-> TRUE,
                data |->
                   [totalBooks |-> Len(books),
                    totalViews |-> reduceSum([i \in 1..Len(books) |-> books[i].views]),
                    totalLikes |-> reduceSum([i \in 1..Len(books) |-> books[i].likes]),
                    averageRating |-> averageRating(feedbackData),
                    genreStats |->
                       [g \in {books[i].genre : i \in 1..Len(books)} |->
                           Cardinality({i \in 1..Len(books) : books[i].genre = g})],
                    ageGroupStats |->
                       [a \in {books[i].ageGroup : i \in 1..Len(books)} |->
                           Cardinality({i \in 1..Len(books) : books[i].ageGroup = a})],
                    recentBooks |-> recentBooks(books)]]
    /\ UNCHANGED <<books, viewsData, feedbackData, commentsData, booksFile,
                   viewsFile, feedbackFile, commentsFile, nextId, now, nreq,
                   writesOk, likeReqs, likes0>>

-----------------------------------------------------------------------------
(* POST /api/views/increment *)

\* a membership test that never finds the device
seenDeviceNever(v, deviceId) == FALSE

\* viewsData.uniqueDevices?.includes(deviceId)
seenDevice(v, deviceId) ==
    \E i \in 1..Len(v.uniqueDevices) : v.uniqueDevices[i] = deviceId

ViewsIncrement(bookId, deviceId, ioBooks, ioViews) ==
    LET i == IF Falsy(bookId) THEN 0 ELSE find(books, bookId.s)
        devices == IF ~Falsy(deviceId) /\ ~seenDevice(viewsData, deviceId.s)
                   THEN Append(viewsData.uniqueDevices, deviceId.s)
                   ELSE viewsData.uniqueDevices
    IN /\ nreq' = nreq + 1
       /\ req' = [op |-> "views", bookId |-> bookId, deviceId |-> deviceId]
       /\ IF i = 0
          THEN /\ UNCHANGED <<books, booksFile>>
               /\ writesOk' = (writesOk /\ ioViews = "ok")
          ELSE /\ books' = [books EXCEPT ![i] = viewed(@)]
               /\ booksFile' = writeJSONFile(booksFile, jsonBooks(books'), ioBooks)
               /\ writesOk' = (writesOk /\ ioBooks = "ok" /\ ioViews = "ok")
       /\ viewsData' = [viewsData EXCEPT !.totalViews = @ + 1,
                                         !.uniqueDevices = devices,
                                         !.lastUpdated = now]
       /\ viewsFile' = writeJSONFile(viewsFile, jsonViews(viewsData'), ioViews)
       /\ resp' = [op |-> "views", status |-> 200, success |-> TRUE,
                   totalViews |-> viewsData'.totalViews,
                   uniqueDevices |-> Len(viewsData'.uniqueDevices)]
       /\ UNCHANGED <<feedbackData, commentsData, feedbackFile, commentsFile,
                      nextId, now, likeReqs, likes0>>

-----------------------------------------------------------------------------
(* Requests that reach no handler *)

\* A request whose JSON body express.json() cannot parse: the parser passes
\* its error to the error-handling middleware
MalformedBody ==
    /\ req' = [op |-> "body"]
    /\ resp' = [op |-> "body",
                status |-> errorMiddleware("entity.parse.failed").status,
                success |-> FALSE,
                error |-> errorMiddleware("entity.parse.failed").error]
    /\ UNCHANGED <<books, viewsData, feedbackData, commentsData, booksFile,
                   viewsFile, feedbackFile, commentsFile, nextId, now, nreq,
                   writesOk, likeReqs, likes0>>

\* A request for a method and path that no route matches: no middleware of
\* the application answers it, and Express sends its own 404 page, an HTML
\* document
UnknownRoute ==
    /\ req' = [op |-> "route"]
    /\ resp' = [op |-> "route", status |-> 404, html |-> "Cannot POST /api/nothing"]
    /\ UNCHANGED <<books, viewsData, feedbackData, commentsData, booksFile,
                   viewsFile, feedbackFile, commentsFile, nextId, now, nreq,
                   writesOk, likeReqs, likes0>>

-----------------------------------------------------------------------------
(* The clock *)

Tick ==
    /\ now' = now + 1
    /\ nreq' = nreq + 1
    /\ UNCHANGED <<books, viewsData, feedbackData, commentsData, booksFile,
                   viewsFile, feedbackFile, commentsFile, nextId, req, resp,
                   writesOk, likeReqs, likes0>>

-----------------------------------------------------------------------------
(* The requests clients send *)

\* largest page number and page size requested
MaxPage == 3
MaxLimit == 2

Genres == {"", "all", "bedtime"}
Sorts == {Undef, Str("newest"), Str("oldest"), Str("popular"), Str("likes"),
          Str("rating")}
Pages == {NoInt} \cup {Int_(p) : p \in (0 - 1)..MaxPage}
Limits == {NoInt} \cup {Int_(l) : l \in 1..MaxLimit}

\* an id no book has
UnknownId == "id-0"
BookIds == Ids(books) \cup {UnknownId}

InvalidForms ==
    {[ValidForm1 EXCEPT ![f] = v] :
        f \in {"title", "author", "description", "genre", "ageGroup"},
        v \in {Undef, Str("")}}
    \cup {[ValidForm1 EXCEPT !.cover = Undef], [ValidForm1 EXCEPT !.pdf = Undef],
          [ValidForm2 EXCEPT !.title = Undef, !.cover = Undef, !.pdf = Undef]}

Forms == ValidForms \cup InvalidForms

Rejects == {"none", "LIMIT_FILE_SIZE", "LIMIT_FILE_COUNT", "Invalid file type",
            "LIMIT_UNEXPECTED_FILE"}

Comments == {JsUndefined, JsNull, JsString(""), JsString(" "),
             JsString(" \t\n"), JsString("  Nice book \n"), JsString("ok"),
             JsInt(0), JsInt(7), JsBool(TRUE)}
Authors == {Undef, Str(""), Str("Zoe")}

Ratings == {JsUndefined, JsNull, JsInt(0), JsInt(1), JsInt(2), JsInt(3), JsInt(4),
            JsInt(5), JsInt(6), JsInt(0 - 1), JsTenths(5), JsTenths(15),
            JsTenths(55), JsString("3"), JsString("0"), JsString("6"),
            JsString(""), JsString("abc"), JsString("9abc"), JsBool(TRUE),
            JsBool(FALSE)}

FeedbackBookIds == {Undef, Str(""), Str(uuid(1)), Str(UnknownId)}
DeviceIds == {Undef, Str("dev-1"), Str("dev-2")}

-----------------------------------------------------------------------------
(* The server *)

\* a request of the run's prefix, within the budget
Setup(Handler) ==
    /\ phase = "run"
    /\ Handler
    /\ phase' = "run"
    /\ nreq' <= MaxReq
    /\ UNCHANGED <<inflight, pager>>

\* the request under study, after which the run is not continued
Observed(Handler) ==
    /\ phase = "run"
    /\ Handler
    /\ phase' = "observed"
    /\ UNCHANGED <<inflight, pager>>

\* steps per run of the specifications that study one part of the server
MaxSteps == 3

\* a step of such a run, within the budget
Step(Handler) ==
    /\ phase = "run"
    /\ Handler
    /\ phase' = "run"
    /\ nreq' <= MaxSteps
    /\ UNCHANGED <<inflight, pager>>

\* The catalog service: every endpoint, each with a few requests
Next ==
    \/ Setup(Tick)
    \/ \E page \in {Int_(1), Int_(2)} :
          Setup(ListBooks("", "", Undef, page, Int_(2)))
    \/ \E bookId \in {books[1].id, UnknownId}, io \in IOs :
          Setup(GetBook(bookId, io))
    \/ \E form \in {ValidForm1, [ValidForm1 EXCEPT !.pdf = Undef]}, io \in IOs :
          Setup(Upload(form, "none", io))
    \/ \E bookId \in {books[1].id, uuid(1), UnknownId}, io \in IOs :
          Setup(Like(bookId, io))
    \/ \E comment \in {JsString(""), JsString(" ok ")}, io \in IOs :
          Setup(AddComment(uuid(1), comment, Undef, io))
    \/ Setup(GetComments(uuid(1)))
    \/ \E rating \in {JsInt(0), JsInt(5)}, io \in IOs :
          Setup(Feedback(Str(uuid(1)), rating, Undef, Undef, io))
    \/ \E bookId \in {Undef, Str(uuid(1))}, io \in IOs :
          Setup(ViewsIncrement(bookId, Str("dev-1"), io, io))
    \/ Setup(GetStats)
    \/ Setup(MalformedBody)
    \/ Setup(UnknownRoute)

Spec == Init /\ [][Next]_vars

\* a first start whose seed write succeeded
InitOk == Init /\ writesOk

\* The query engine: a few uploads, likes and listings, then one listing
\* drawn from all the query parameters
NextQuery ==
    \/ Setup(Tick)
    \/ \E form \in ValidForms : Setup(Upload(form, "none", "ok"))
    \/ Setup(Like(books[1].id, "ok"))
    \/ Setup(ListBooks("", "", Undef, NoInt, NoInt))
    \/ \E search \in Searches, genre \in Genres, sort \in Sorts,
          page \in Pages, limit \in Limits :
          Observed(ListBooks(search, genre, sort, page, limit))

SpecQuery == InitOk /\ [][NextQuery]_vars

\* Feedback: a few feedback records, then one feedback request drawn from
\* all the bodies
NextFeedback ==
    \/ Setup(Tick)
    \/ \E rating \in {JsInt(4), JsString("2")}, io \in IOs :
          Setup(Feedback(Str(uuid(2)), rating, Str("fun"), Str("dev-1"), io))
    \/ \E bookId \in FeedbackBookIds, rating \in Ratings,
          deviceId \in DeviceIds, io \in IOs :
          Observed(Feedback(bookId, rating, Undef, deviceId, io))

SpecFeedback == Init /\ [][NextFeedback]_vars

\* Comments: a few comments, then one comment request drawn from all the
\* bodies, or one read of a book's comments
NextComment ==
    \/ Step(Tick)
    \/ \E bookId \in {uuid(1), uuid(2)}, io \in IOs :
          Step(AddComment(bookId, JsString("first"), Str("Amy"), io))
    \/ \E bookId \in BookIds, comment \in Comments, author \in Authors,
          io \in IOs :
          Observed(AddComment(bookId, comment, author, io))
    \/ \E bookId \in BookIds : Observed(GetComments(bookId))

SpecComment == Init /\ [][NextComment]_vars

\* Uploads: a few uploads and likes, then one upload drawn from all the forms
NextUpload ==
    \/ Setup(Tick)
    \/ \E io \in IOs : Setup(Upload(ValidForm2, "none", io))
    \/ \E io \in IOs : Setup(Like(books[1].id, io))
    \/ \E form \in Forms, reject \in Rejects, io \in IOs :
          Observed(Upload(form, reject, io))

SpecUpload == Init /\ [][NextUpload]_vars

\* Restarts: requests that change the collections, changes made to
\* data/books.json from outside, and restarts of the process
NextStartup ==
    \/ \E io \in IOs : Step(Restart(io))
    \/ \E kind \in {"removed", "emptied", "garbled"} : Step(Damage(kind))
    \/ \E io \in IOs : Step(Like(books[1].id, io))
    \/ \E io \in IOs : Step(Upload(ValidForm2, "none", io))
    \/ Step(ListBooks("", "", Undef, NoInt, Int_(1)))
    \/ \E io \in IOs : Step(AddComment(uuid(1), JsString("fun"), Undef, io))
    \/ \E io \in IOs :
          Step(Feedback(Str(uuid(1)), JsString("x"), Undef, Undef, io))
    \/ \E io \in IOs : Step(ViewsIncrement(Undef, Str("dev-1"), io, io))

SpecStartup == Init /\ [][NextStartup]_vars

\* The order of the catalog: uploads, likes, feedback and clock ticks, then
\* the statistics or a listing with the default order
NextStats ==
    \/ Step(Tick)
    \/ \E form \in ValidForms : Step(Upload(form, "none", "ok"))
    \/ Step(Like(books[Len(books)].id, "ok"))
    \/ \E rating \in {JsInt(4), JsInt(5)} :
          Step(Feedback(Str(uuid(1)), rating, Undef, Undef, "ok"))
    \/ Observed(GetStats)
    \/ \E genre \in {"", "all"}, sort \in {Undef, Str("newest"), Str("rating")},
          page \in {NoInt, Int_(1), Int_(2)}, limit \in {NoInt, Int_(1), Int_(4)} :
          Observed(ListBooks("", genre, sort, page, limit))

SpecStats == InitOk /\ [][NextStats]_vars

\* References to books: comments and feedback for a book of the catalog and
\* for an id that no book has, among uploads
NextReferences ==
    \/ Step(Upload(ValidForm1, "none", "ok"))
    \/ \E bookId \in {uuid(1), UnknownId},
          comment \in {JsString(""), JsString(" ok ")}, io \in IOs :
          Step(AddComment(bookId, comment, Undef, io))
    \/ \E bookId \in {Str(""), Str(uuid(1)), Str(UnknownId)},
          rating \in {JsInt(0), JsInt(5)}, io \in IOs :
          Step(Feedback(bookId, rating, Undef, Undef, io))

SpecReferences == Init /\ [][NextReferences]_vars

\* View counting: increments for a book, for no book and for an unknown
\* book, from two devices and from none, and clock ticks
NextViews ==
    \/ Step(Tick)
    \/ \E bookId \in {Undef, Str(""), Str(uuid(1)), Str(UnknownId)},
          deviceId \in {Undef, Str(""), Str("dev-1"), Str("dev-2")},
          ioBooks \in IOs, ioViews \in IOs :
          Step(ViewsIncrement(bookId, deviceId, ioBooks, ioViews))

SpecViews == Init /\ [][NextViews]_vars

\* Reading a listing page after page: a few uploads, likes and listings, then
\* one client reads the pages of one query in ascending order, and the server
\* handles no other request until the client has read the last page
NextPaging ==
    \/ \E form \in ValidForms :
          pager.state = "idle" /\ Setup(Upload(form, "none", "ok"))
    \/ pager.state = "idle" /\ Setup(Like(books[1].id, "ok"))
    \/ \E sort \in {Undef, Str("popular")} :
          pager.state = "idle" /\ Setup(ListBooks("", "", sort, Int_(1), Int_(1)))
    \/ \E search \in Searches, genre \in Genres, sort \in Sorts,
          limit \in 1..MaxLimit :
          phase = "run" /\ StartPaging(search, genre, sort, limit)
             /\ UNCHANGED <<phase, inflight>>
    \/ phase = "run" /\ NextPage /\ UNCHANGED <<phase, inflight>>

SpecPaging == InitOk /\ [][NextPaging]_vars

\* Overlapping requests: each client sends one like, and the server accepts
\* requests while earlier ones wait for their handlers
NextConcurrent ==
    \/ \E c \in Clients, bookId \in {uuid(1), uuid(2)} :
          phase = "run" /\ Accept(c, bookId) /\ UNCHANGED <<phase, pager>>
    \/ \E c \in Clients, io \in IOs :
          phase = "run" /\ HandleLike(c, io) /\ UNCHANGED <<phase, pager>>

SpecConcurrent == Init /\ [][NextConcurrent]_vars

-----------------------------------------------------------------------------
(* Properties *)

\* the step handled a request of kind op
Handled(op) ==
    /\ req'.op = op
    /\ (phase' # phase \/ req' # req \/ resp' # resp)

\* the file holds exactly the collection
Holds(file, collection) ==
    file = [exists |-> TRUE, parses |-> TRUE, data |-> collection]

\* C1: a book's like counter is its initial value plus the number of like
\* requests made for it, whatever other requests were handled in between, and
\* each like of an existing book answers success with that count.
C1_LikesCountEveryRequest ==
    /\ \A i \in 1..Len(books) :
          books[i].likes = likes0[books[i].id] + likeReqs[books[i].id]
    /\ (resp.op = "like" /\ req.bookId \in Ids(books)) =>
          /\ resp.status = 200
          /\ resp.success
          /\ resp.likes = likes0[req.bookId] + likeReqs[req.bookId]

\* the second like of one book, answered with its initial likes plus two
C1_Witness ==
    /\ resp.op = "like"
    /\ req.bookId \in Ids(books)
    /\ likeReqs[req.bookId] = 2
    /\ resp.likes = likes0[req.bookId] + 2

\* C2: after every request that changes a collection, when no write has
\* failed, the backing file of that collection holds exactly the collection.
C2_FileHoldsChangedCollection ==
    [][writesOk' =>
          /\ (books' # books => Holds(booksFile', books'))
          /\ (commentsData' # commentsData => Holds(commentsFile', commentsData'))
          /\ (feedbackData' # feedbackData => Holds(feedbackFile', feedbackData'))
          /\ (viewsData' # viewsData => Holds(viewsFile', viewsData'))]_vars

\* text contains term, case ignored
ContainsIgnoringCase(text, term) ==
    includes(toLowerCase(text), toLowerCase(term))

\* the books a listing is to match
Matched(b, search, genre) ==
    /\ \/ search = ""
       \/ ContainsIgnoringCase(b.title, search)
       \/ ContainsIgnoringCase(b.author, search)
       \/ ContainsIgnoringCase(b.description, search)
       \/ \E k \in 1..Len(b.tags) : ContainsIgnoringCase(b.tags[k], search)
    /\ (genre \in {"", "all"} \/ b.genre = genre)

MatchedIds(search, genre) ==
    {books[i].id : i \in {k \in 1..Len(books) : Matched(books[k], search, genre)}}

\* C3: for page >= 1 and limit >= 1 a listing reports the number of matching
\* books, the ceiling of that number over limit as totalPages, and returns
\* min(limit, max(0, totalBooks - (page-1)*limit)) items.
C3_PaginationCounts ==
    (resp.op = "list" /\ req.page >= 1 /\ req.limit >= 1) =>
        LET total == Cardinality(MatchedIds(req.search, req.genre))
            pages == resp.pagination.totalPages
            rest == total - (req.page - 1) * req.limit
        IN /\ resp.pagination.totalBooks = total
           /\ pages * req.limit >= total
           /\ (pages - 1) * req.limit < total
           /\ Len(resp.data) = Min(req.limit, Max(0, rest))
           /\ Len(resp.data) <= req.limit

\* the last, partly filled page of a filtered listing
C3_Witness ==
    /\ resp.op = "list"
    /\ req.page = 2
    /\ req.limit = 2
    /\ req.genre = "bedtime"
    /\ resp.pagination.totalBooks = 3
    /\ resp.pagination.totalPages = 2
    /\ Len(resp.data) = 1

\* C4: with limit >= 1 every page outside 1..totalPages is answered with
\* success and no items.
C4_OutOfRangePageEmpty ==
    (resp.op = "list" /\ req.limit >= 1
        /\ (req.page < 1 \/ req.page > resp.pagination.totalPages)) =>
        /\ resp.status = 200
        /\ resp.success
        /\ Len(resp.data) = 0

\* C5: the books a listing matches are exactly those whose title, author,
\* description or a tag contains the search term, case ignored (all books for
\* an empty term), and whose genre equals the genre filter (all for "" and
\* "all"); a term found only in the genre does not match.
C5_MatchedSet ==
    resp.op = "list" =>
        /\ Ids(resp.filteredBooks) = MatchedIds(req.search, req.genre)
        /\ Len(resp.filteredBooks) = Cardinality(MatchedIds(req.search, req.genre))

\* "CAT" finds "Counting with Colorful Cats" and leaves other books out
C5_Witness ==
    /\ resp.op = "list"
    /\ req.search = "CAT"
    /\ req.genre = "all"
    /\ \E i \in 1..Len(resp.filteredBooks) :
          resp.filteredBooks[i].title = "Counting with Colorful Cats"
    /\ Len(resp.filteredBooks) < Len(books)

\* a precedes b in the order of the sort key
InOrder(sort, a, b) ==
    CASE sort = Str("popular") -> a.views >= b.views
      [] sort = Str("likes") -> a.likes >= b.likes
      [] sort = Str("oldest") -> a.createdAt <= b.createdAt
      [] OTHER -> a.createdAt >= b.createdAt

Position(id) == CHOOSE k \in 1..Len(books) : books[k].id = id

\* C6: the matched books are in the order of the sort key (views, likes or
\* createdAt descending, createdAt ascending for "oldest", createdAt
\* descending for no or an unknown sort), books with equal keys in collection
\* order, and the returned page is in that order after its view increment.
C6_StableSortOrder ==
    resp.op = "list" =>
        /\ \A i, j \in 1..Len(resp.filteredBooks) :
              i < j =>
                 LET a == resp.filteredBooks[i]
                     b == resp.filteredBooks[j]
                 IN /\ InOrder(req.sort, a, b)
                    /\ InOrder(req.sort, b, a) => Position(a.id) < Position(b.id)
        /\ \A i, j \in 1..Len(resp.data) :
              i < j => InOrder(req.sort, resp.data[i], resp.data[j])

\* a listing by likes whose page holds two books with equal likes
C6_Witness ==
    /\ resp.op = "list"
    /\ req.sort = Str("likes")
    /\ \E i \in 1..Len(resp.data) : \E j \in 1..Len(resp.data) :
          /\ i < j
          /\ resp.data[i].likes = resp.data[j].likes
          /\ Position(resp.data[i].id) < Position(resp.data[j].id)

\* a rating that is missing, or a number outside 1..5
BadRating(r) ==
    \/ r.t \in {"undefined", "null"}
    \/ r.t = "number" /\ (r.n < 10 \/ r.n > 50)

\* the rating is the number 1, 2, 3, 4 or 5
GoodRating(r) == r.t = "number" /\ r.n \in {10, 20, 30, 40, 50}

\* C7: a feedback request without bookId, or whose rating is missing or a
\* number outside 1..5, is answered 400 and changes neither the feedback
\* collection nor its file; with a bookId and a rating 1..5 it is answered
\* 201, one record is appended at the end and the feedback file is written.
C7_FeedbackValidation ==
    [][Handled("feedback") =>
          /\ (Falsy(req'.bookId) \/ BadRating(req'.rating)) =>
                /\ resp'.status = 400
                /\ feedbackData' = feedbackData
                /\ feedbackFile' = feedbackFile
          /\ (~Falsy(req'.bookId) /\ GoodRating(req'.rating)) =>
                /\ resp'.status = 201
                /\ feedbackData' = Append(feedbackData, resp'.data)
                /\ resp'.data.bookId = req'.bookId.s
                /\ resp'.data.rating = req'.rating
                /\ writesOk' => feedbackFile' =
                      [exists |-> TRUE, parses |-> TRUE,
                       data |-> jsonFeedback(feedbackData')]]_vars

\* a rating 5 accepted and appended behind an earlier record
C7_Witness ==
    /\ resp.op = "feedback"
    /\ phase = "observed"
    /\ req.rating = JsInt(5)
    /\ resp.status = 201
    /\ Len(feedbackData) = 2
    /\ feedbackData[2] = resp.data
    /\ feedbackData[2].rating = JsInt(5)

\* C8: every stored feedback record has an integer rating between 1 and 5.
C8_StoredRatingInRange ==
    \A i \in 1..Len(feedbackData) :
        /\ feedbackData[i].rating.t = "number"
        /\ feedbackData[i].rating.n \in {10, 20, 30, 40, 50}

\* s consists of white space only
Blank(s) == \A i \in 1..Len(s) : IsSpace(SubSeq(s, i, i))

\* s without its leading and trailing white space
Stripped(s) ==
    LET inked == {i \in 1..Len(s) : ~IsSpace(SubSeq(s, i, i))}
        first == CHOOSE i \in inked : \A k \in inked : i <= k
        last == CHOOSE i \in inked : \A k \in inked : i >= k
    IN IF inked = {} THEN "" ELSE SubSeq(s, first, last)

Incomplete(form) ==
    \/ \E f \in {"title", "author", "description", "genre", "ageGroup"} :
          ~form[f].has \/ form[f].s = ""
    \/ ~form.cover.has
    \/ ~form.pdf.has

\* C10: an upload request with a required text field missing or empty, or
\* without cover or without PDF, is answered 400 and changes neither the books
\* collection nor the books file.
C10_UploadValidation ==
    [][(Handled("upload") /\ Incomplete(req'.form)) =>
          /\ resp'.status = 400
          /\ ~resp'.success
          /\ books' = books
          /\ booksFile' = booksFile]_vars

\* the records of a collection have pairwise distinct ids
DistinctIds(records) ==
    \A i, j \in 1..Len(records) : i # j => records[i].id # records[j].id

\* C11: no two books share an id, no two comments share an id and no two
\* feedback records share an id, whatever requests were handled.
C11_UniqueIds ==
    /\ DistinctIds(books)
    /\ DistinctIds(commentsData)
    /\ DistinctIds(feedbackData)

\* two uploaded books beside the three sample books
C11_Witness ==
    /\ Len(books) = 5
    /\ resp.op = "upload"
    /\ resp.status = 201
    /\ Cardinality(Ids(books)) = 5

\* C12: views and likes of every book are integers >= 0; a request removes no
\* book, changes a counter of a book only by adding exactly 1, and a book that
\* enters the catalog starts with views 0 and likes 0.
C12_CountersNeverDecrease ==
    [][/\ \A j \in 1..Len(books') :
             /\ books'[j].views \in Nat
             /\ books'[j].likes \in Nat
             /\ books'[j].id \notin Ids(books) =>
                    (books'[j].views = 0 /\ books'[j].likes = 0)
       /\ \A i \in 1..Len(books) :
             \E j \in 1..Len(books') :
                /\ books'[j].id = books[i].id
                /\ books'[j].views - books[i].views \in {0, 1}
                /\ books'[j].likes - books[i].likes \in {0, 1}]_vars

\* a sample book liked once and then fetched: both counters one above their
\* seeded values
C12_Witness ==
    /\ resp.op = "get"
    /\ resp.status = 200
    /\ resp.data.likes = likes0[req.bookId] + 1
    /\ resp.data.views = sampleBooks(0)[1].views + 1
    /\ resp.data.id = sampleBooks(0)[1].id

\* the sample books, whatever their ids
IsSampleBooks(bs) ==
    /\ Len(bs) = 3
    /\ \A i \in 1..3 : [bs[i] EXCEPT !.id = ""] = [sampleBooks(0)[i] EXCEPT !.id = ""]

\* C13: a start installs the sample books, and overwrites data/books.json
\* with them, exactly when the collection read from the file is empty (file
\* absent, not JSON, or []); a non-empty array in the file becomes the
\* collection as it is and the start does not write the file.
C13_SeedOnlyWhenEmpty ==
    [][Handled("start") =>
          IF \/ ~booksFile.exists
             \/ ~booksFile.parses
             \/ booksFile.data = <<>>
          THEN /\ IsSampleBooks(books')
               /\ req'.io = "ok" => Holds(booksFile', books')
          ELSE /\ books' = booksFile.data
               /\ booksFile' = booksFile]_vars

\* a start over a file that holds the sample books and an uploaded book
C13_Witness ==
    /\ req.op = "start"
    /\ Len(books) = 4
    /\ books[1].title = "Moon Song"
    /\ Holds(booksFile, books)

\* C14: each collection the server holds in memory is equal to what
\* readJSONFile loads after writeJSONFile saved it.
C14_RoundTrip ==
    /\ readJSONFile(writeJSONFile(NoFile, jsonBooks(books), "ok"), <<>>) = books
    /\ readJSONFile(writeJSONFile(NoFile, jsonComments(commentsData), "ok"), <<>>)
          = commentsData
    /\ readJSONFile(writeJSONFile(NoFile, jsonFeedback(feedbackData), "ok"), <<>>)
          = feedbackData
    /\ readJSONFile(writeJSONFile(NoFile, jsonViews(viewsData), "ok"), EmptyViews)
          = viewsData

\* C15: a request whose file write fails is answered 500 with success false.
C15_WriteFailureReported ==
    [][(writesOk /\ ~writesOk') =>
          /\ resp'.status = 500
          /\ ~resp'.success]_vars

\* C16: a fetch or a like of an id that no book has is answered 404 with
\* success false, changes no book and writes no file.
C16_UnknownIdNotFound ==
    [][((Handled("get") \/ Handled("like")) /\ req'.bookId \notin Ids(books)) =>
          /\ resp'.status = 404
          /\ ~resp'.success
          /\ books' = books
          /\ UNCHANGED <<booksFile, viewsFile, feedbackFile, commentsFile>>]_vars

\* a like of an unknown id, refused after a like of a sample book
C16_Witness ==
    /\ resp.op = "like"
    /\ req.bookId = UnknownId
    /\ resp.status = 404
    /\ \E i \in 1..Len(books) : likeReqs[books[i].id] = 1

\* the place of a comment in the collection
CommentPosition(id) == CHOOSE k \in 1..Len(commentsData) : commentsData[k].id = id

\* C17: the comments of a book are answered as exactly the comments with that
\* bookId, newest first, comments of equal createdAt in the order they were
\* added; the request changes neither the comments collection nor any file.
C17_CommentsNewestFirst ==
    [][Handled("comments") =>
          /\ resp'.status = 200
          /\ {resp'.data[k] : k \in 1..Len(resp'.data)} =
                {commentsData[k] : k \in {n \in 1..Len(commentsData) :
                                            commentsData[n].bookId = req'.bookId}}
          /\ DistinctIds(resp'.data)
          /\ \A i, j \in 1..Len(resp'.data) :
                i < j =>
                   /\ resp'.data[i].createdAt >= resp'.data[j].createdAt
                   /\ resp'.data[i].createdAt = resp'.data[j].createdAt =>
                         CommentPosition(resp'.data[i].id)
                            < CommentPosition(resp'.data[j].id)
          /\ commentsData' = commentsData
          /\ UNCHANGED <<booksFile, viewsFile, feedbackFile, commentsFile>>]_vars

\* two comments of one book, the later one answered first
C17_Witness ==
    /\ resp.op = "comments"
    /\ Len(commentsData) = 2
    /\ Len(resp.data) = 2
    /\ resp.data[1].createdAt > resp.data[2].createdAt
    /\ resp.data[1] = commentsData[2]

\* C18: every response that reports an error is a JSON object with success
\* false and an error text.
C18_ErrorEnvelope ==
    resp.status >= 400 =>
        /\ {"success", "error"} \subseteq DOMAIN resp
        /\ resp.success = FALSE
        /\ resp.error \in STRING

\* clients c and d sent likes of one book, the server held both requests at
\* the same time, and both were answered (a like of a book is answered 200)
OverlappingLikes(c, d) ==
    /\ c # d
    /\ inflight[c].state = "answered"
    /\ inflight[d].state = "answered"
    /\ inflight[c].bookId = inflight[d].bookId
    /\ (d \in inflight[c].during \/ c \in inflight[d].during)

\* a like that was answered with success is missing from the collection or,
\* all writes having succeeded, from the file
LostUpdate ==
    \E i \in 1..Len(books) :
       \/ books[i].likes < likes0[books[i].id] + likeReqs[books[i].id]
       \/ /\ writesOk
          /\ booksFile.data[i].likes < likes0[books[i].id] + likeReqs[books[i].id]

WriteFailed == writesOk /\ ~writesOk'

\* C20: a mutating request whose file write fails keeps its change of the
\* in-memory collection and leaves the file as it was, and a step that
\* writes the file of a collection leaves the file equal to the collection
\* in memory, earlier changes whose writes failed included.
C20_FailedWriteKeptUntilNextWrite ==
    [][/\ (WriteFailed /\ (Handled("get") \/ Handled("like") \/ Handled("upload"))) =>
             (books' # books /\ booksFile' = booksFile)
       /\ (WriteFailed /\ Handled("comment")) =>
             (commentsData' # commentsData /\ commentsFile' = commentsFile)
       /\ (WriteFailed /\ Handled("feedback")) =>
             (feedbackData' # feedbackData /\ feedbackFile' = feedbackFile)
       /\ (WriteFailed /\ Handled("views")) =>
             /\ viewsData' # viewsData
             /\ (viewsFile' = viewsFile \/ booksFile' = booksFile)
       /\ booksFile' # booksFile => Holds(booksFile', books')
       /\ commentsFile' # commentsFile => Holds(commentsFile', commentsData')
       /\ feedbackFile' # feedbackFile => Holds(feedbackFile', feedbackData')
       /\ viewsFile' # viewsFile => Holds(viewsFile', viewsData')]_vars

\* C21: a restart after view increments whose writes all succeeded reloads
\* the views state with the global view total and the device identifiers it
\* had before the restart, so the next increment continues from that total.
C21_ViewsSurviveRestart ==
    [][(Handled("start") /\ writesOk) =>
          /\ viewsData'.totalViews = viewsData.totalViews
          /\ viewsData'.uniqueDevices = viewsData.uniqueDevices]_vars

\* C22: a listing adds exactly one view to each book of the returned page
\* and to no other book, changes no like counter, comment, feedback or views
\* data and no file, and returns the books with the incremented views; a
\* listing whose page is empty changes nothing.
C22_ListingViewsOnlyServed ==
    [][Handled("list") =>
          LET served == Ids(resp'.data)
          IN /\ Len(books') = Len(books)
             /\ \A i \in 1..Len(books) :
                   books'[i] = IF books[i].id \in served
                               THEN [books[i] EXCEPT !.views = @ + 1]
                               ELSE books[i]
             /\ \A j \in 1..Len(resp'.data) :
                   resp'.data[j] = books'[find(books', resp'.data[j].id)]
             /\ (resp'.data = <<>>) => (books' = books)
             /\ UNCHANGED <<commentsData, feedbackData, viewsData, booksFile,
                            commentsFile, feedbackFile, viewsFile>>]_vars

\* a listing answered with a page that holds some books of the catalog and
\* not others
C22_Witness ==
    /\ resp.op = "list"
    /\ phase = "observed"
    /\ Len(resp.data) >= 1
    /\ Len(resp.data) < Len(resp.filteredBooks)
    /\ \A j \in 1..Len(resp.data) :
          books[find(books, resp.data[j].id)].views >= 1

\* C23: a client that reads pages 1, 2, ..., totalPages of one query in
\* ascending order, no other request in between, receives no book twice and,
\* when it has read the last page, has received every matching book, for
\* every sort key, although each listing adds views to the books it returns.
C23_PagingCoversEachBookOnce ==
    /\ \A j, k \in 1..Len(pager.got) : (pager.got[j] = pager.got[k]) => (j = k)
    /\ (pager.state = "done") =>
          {pager.got[j] : j \in 1..Len(pager.got)} = pager.matching

\* four pages read by most views, among books with equal views, each
\* listing having changed the views the next one sorts by
C23_Witness ==
    /\ pager.state = "done"
    /\ pager.sort = Str("popular")
    /\ pager.limit = 1
    /\ Len(pager.got) >= 4
    /\ \E i, j \in 1..Len(books) : i # j /\ books[i].views = books[j].views

\* the device identifiers of a views state, as a set
Devices(v) == {v.uniqueDevices[i] : i \in 1..Len(v.uniqueDevices)}

\* C24: a view increment adds exactly 1 to the global view total and returns
\* it with success; it adds 1 to the views of the book that bookId names and
\* touches no book when bookId is missing or names none; the device list
\* gains the deviceId if it is non-empty and new, never holds a device twice,
\* and the returned uniqueDevices is the number of distinct devices seen.
C24_ViewIncrement ==
    [][Handled("views") =>
          /\ viewsData'.totalViews = viewsData.totalViews + 1
          /\ resp'.status = 200
          /\ resp'.success
          /\ resp'.totalViews = viewsData'.totalViews
          /\ books' = IF ~Falsy(req'.bookId) /\ req'.bookId.s \in Ids(books)
                      THEN [books EXCEPT ![find(books, req'.bookId.s)].views = @ + 1]
                      ELSE books
          /\ Devices(viewsData') =
                Devices(viewsData) \cup
                   (IF Falsy(req'.deviceId) THEN {} ELSE {req'.deviceId.s})
          /\ Len(viewsData'.uniqueDevices) = Cardinality(Devices(viewsData'))
          /\ resp'.uniqueDevices = Cardinality(Devices(viewsData'))]_vars

\* the third increment, from a device seen before, for an unknown book: three
\* views in total, two devices, no book touched by it
C24_Witness ==
    /\ resp.op = "views"
    /\ req.bookId = Str(UnknownId)
    /\ viewsData.totalViews = 3
    /\ resp.totalViews = 3
    /\ resp.uniqueDevices = 2
    /\ viewsData.uniqueDevices = <<"dev-1", "dev-2">>
    /\ req.deviceId = Str("dev-1")

\* C25: an upload answered 201 returns the created book, which has no views
\* and no likes and is the first book of the collection, in front of the
\* books that were there, each unchanged and in the order it had: the
\* collection is longer by exactly one book.
C25_UploadInsertsFirst ==
    [][(Handled("upload") /\ resp'.status = 201) =>
          /\ resp'.success
          /\ resp'.data.views = 0
          /\ resp'.data.likes = 0
          /\ books'[1] = resp'.data
          /\ Len(books') = Len(books) + 1
          /\ \A i \in 1..Len(books) : books'[i + 1] = books[i]]_vars

\* an upload accepted into a catalog that already holds an uploaded book with
\* a view or a like
C25_Witness ==
    /\ resp.op = "upload"
    /\ phase = "observed"
    /\ resp.status = 201
    /\ Len(books) = 5
    /\ books[1] = resp.data
    /\ books[2].views + books[2].likes >= 1

\* a sequence of books without their counters
Cores(bs) == [i \in 1..Len(bs) |-> [bs[i] EXCEPT !.views = 0, !.likes = 0]]

\* C26: no step of a running server removes a book, a comment or a feedback
\* record or reorders a collection, and none changes a field of a stored
\* record other than the views and likes of a book: the books of before are
\* a run of the books of after, equal but for their counters, and the
\* comments and feedback of before are the first records of after.
C26_NoRemovalNoRewrite ==
    [][/\ Len(books') >= Len(books)
       /\ \E k \in 0..(Len(books') - Len(books)) :
             SubSeq(Cores(books'), k + 1, k + Len(books)) = Cores(books)
       /\ Len(commentsData') >= Len(commentsData)
       /\ SubSeq(commentsData', 1, Len(commentsData)) = commentsData
       /\ Len(feedbackData') >= Len(feedbackData)
       /\ SubSeq(feedbackData', 1, Len(feedbackData)) = feedbackData]_vars

\* a like of a sample book in a catalog that has grown by an upload, the
\* book still in its place with the updatedAt it was seeded with
C26_Witness ==
    /\ resp.op = "like"
    /\ resp.status = 200
    /\ Len(books) = 4
    /\ req.bookId = uuid(1)
    /\ books[2].id = uuid(1)
    /\ books[2].likes > likes0[uuid(1)]
    /\ books[2].updatedAt = sampleBooks(0)[1].updatedAt

\* the ids of a sequence of books, in order
IdSeq(bs) == [i \in 1..Len(bs) |-> bs[i].id]

\* C27: the books array is ordered by createdAt, newest first, at all times;
\* a listing with no search, no genre and the default sort returns the books
\* of its page in collection order; and recentBooks of the statistics are
\* the first five books of the collection, none created before a book that
\* is left out.
C27_NewestFirstOrder ==
    /\ [](\A i, j \in 1..Len(books) :
             (i < j) => (books[i].createdAt >= books[j].createdAt))
    /\ [][(/\ Handled("list")
            /\ req'.search = ""
            /\ req'.genre \in {"", "all"}
            /\ req'.sort \notin {Str("popular"), Str("likes"), Str("oldest")}) =>
              IdSeq(resp'.data) =
                 IdSeq(slice(books, (req'.page - 1) * req'.limit,
                             req'.page * req'.limit))]_vars
    /\ [][Handled("stats") =>
              LET recent == resp'.data.recentBooks
              IN /\ Len(recent) = Min(5, Len(books))
                 /\ IdSeq(recent) = IdSeq(SubSeq(books, 1, Len(recent)))
                 /\ \A i \in 1..Len(recent) :
                       /\ recent[i].title = books[i].title
                       /\ recent[i].views = books[i].views
                       /\ recent[i].likes = books[i].likes
                 /\ \A i \in 1..Len(recent), j \in (Len(recent) + 1)..Len(books) :
                       books[i].createdAt >= books[j].createdAt]_vars

\* the statistics of a catalog of six books, three uploads in front of the
\* samples: five recent books, the oldest sample left out
C27_Witness ==
    /\ resp.op = "stats"
    /\ phase = "observed"
    /\ Len(books) = 6
    /\ Len(resp.data.recentBooks) = 5
    /\ resp.data.recentBooks[1].id = books[1].id
    /\ books[6].createdAt < books[5].createdAt

\* C28: for page >= 1 and limit >= 1, hasMore of a listing is true exactly
\* when page * limit is less than totalBooks, which is exactly when
\* currentPage is less than totalPages; it is false on the last page and on
\* every page beyond it.
C28_HasMore ==
    (resp.op = "list" /\ req.page >= 1 /\ req.limit >= 1) =>
        LET p == resp.pagination
        IN /\ p.hasMore <=> (req.page * req.limit < p.totalBooks)
           /\ p.hasMore <=> (p.currentPage < p.totalPages)
           /\ (p.currentPage >= p.totalPages) => ~p.hasMore

\* the last page of a listing, filled to its limit by the last matching book
C28_Witness ==
    /\ resp.op = "list"
    /\ phase = "observed"
    /\ req.limit = 2
    /\ req.page = 2
    /\ resp.pagination.totalBooks = 4
    /\ resp.pagination.totalPages = 2
    /\ Len(resp.data) = 2
    /\ ~resp.pagination.hasMore

\* C29: a comment request with a non-blank text and a feedback request with
\* a bookId and a rating 1..5 are answered 201 and append their record with
\* the bookId they gave, whether or not a book has that id; no comment or
\* feedback request is answered 404, and none changes the books collection
\* or the books file.
C29_NoCatalogLookup ==
    [][/\ (/\ Handled("comment")
           /\ req'.comment.t = "string"
           /\ ~Blank(req'.comment.s)) =>
             /\ resp'.status = 201
             /\ commentsData' = Append(commentsData, resp'.data)
             /\ resp'.data.bookId = req'.bookId
       /\ (/\ Handled("feedback")
           /\ ~Falsy(req'.bookId)
           /\ GoodRating(req'.rating)) =>
             /\ resp'.status = 201
             /\ feedbackData' = Append(feedbackData, resp'.data)
             /\ resp'.data.bookId = req'.bookId.s
       /\ (Handled("comment") \/ Handled("feedback")) =>
             /\ resp'.status # 404
             /\ books' = books
             /\ booksFile' = booksFile]_vars

\* a comment and a feedback record stored for an id that no book has
C29_Witness ==
    /\ UnknownId \notin Ids(books)
    /\ \E i \in 1..Len(commentsData) : commentsData[i].bookId = UnknownId
    /\ \E i \in 1..Len(feedbackData) : feedbackData[i].bookId = UnknownId
    /\ resp.status = 201

\* C30: a fetch of an existing book adds exactly 1 to the views of that book
\* and changes no other, returns the book with the new count and exactly the
\* comments made for its id, and writes the whole collection: the books file
\* is left as it was (the write failed) or equal to the books in memory, the
\* views added by earlier listings included, and equal when no write failed.
C30_FetchCountsAndWrites ==
    [][(Handled("get") /\ req'.bookId \in Ids(books)) =>
          LET i == find(books, req'.bookId)
          IN /\ resp'.status = 200
             /\ resp'.success
             /\ books' = [books EXCEPT ![i].views = @ + 1]
             /\ resp'.data = books'[i]
             /\ resp'.data.views = books[i].views + 1
             /\ resp'.comments =
                   SelectSeq(commentsData, LAMBDA c : c.bookId = req'.bookId)
             /\ commentsData' = commentsData
             /\ Holds(booksFile', books') \/ booksFile' = booksFile
             /\ writesOk' => Holds(booksFile', books')]_vars

\* a fetch after a listing that added views without a write: the file holds
\* the views of the listing too
C30_Witness ==
    /\ resp.op = "get"
    /\ resp.status = 200
    /\ writesOk
    /\ Holds(booksFile, books)
    /\ Len(books) = 3
    /\ \E i \in 1..Len(books) :
          /\ books[i].id # req.bookId
          /\ books[i].views > sampleBooks(0)[i].views

====
